---- MODULE Spec2Model ----
(***************************************************************************)
(* Creator Dashboard: the credit ledger (CreditBalance + CreditTransaction *)
(* kept in step by credit.model.js and credit.service.js), the reward      *)
(* rules that feed it (daily login, e-mail verification, profile           *)
(* completion, content interaction), the content upsert and refresh of    *)
(* the ingestion pipeline, the feed query and content reports.            *)
(*                                                                         *)
(* Time is counted in hours.  A store write (a mongoose save/create) and   *)
(* the notification sink may fail; which call of a handler fails is an     *)
(* input of the handler's action (the fault f).                            *)
(***************************************************************************)
EXTENDS Integers, Sequences, FiniteSets, TLC

\* ------------------------------------------------------------------ bounds
MaxSteps == 4          \* handler invocations in one behaviour
MaxTime == 41          \* the clock stops here (hours)
MaxRequests == 3       \* requests served in one behaviour of concurrent requests
MaxRewardCalls == 2    \* direct processProfileCompletionRewards calls in one behaviour
MaxIngests == 2        \* save...ToDatabase calls in one behaviour

Users == {"u1", "u2"}
Procs == {"p1", "p2"}  \* requests the server handles at the same time
TickHours == {19, 20, 21}\* the clock advances by one of these

\* ------------------------------------------------------- program constants
CooldownHours == 20
DefaultDailyLoginCredits == 10
EmailVerificationReward == 20
VerificationTokenHours == 24
CacheHours == 24
NoDate == -1

Faults == {"none", "save", "insert", "notify"}

VARIABLES
  users,      \* User collection: userId -> document
  credits,    \* CreditBalance collection: userId -> document
  txlog,      \* CreditTransaction collection per user, in createdAt order
  now,        \* Date.now(), in hours
  result,     \* what the last handler returned to its caller ("" = success)
  steps,      \* handler invocations so far
  pc,         \* per request in flight: the await it is suspended at
  req,        \* per request in flight: its arguments
  held,       \* per request in flight: its in-memory CreditBalance document
  pend,       \* per request in flight: the transaction it is about to insert
  content,    \* Content collection, in insertion order
  ingested,   \* history: per (source, sourceId), what was handed to the upsert
  reports,    \* Report collection, in insertion order
  job,        \* per feed request in flight: its position and its locals
  feed,       \* the last FeedService request and what it returned
  saved,      \* the SavedContent collection, in insertion order
  everSaved   \* history: per user, the SavedContent rows ever created

vars == <<users, credits, txlog, now, result, steps, pc, req, held, pend,
          content, ingested, reports, job, feed, saved, everSaved>>
flight == <<pc, req, held, pend, content, ingested, reports, job, feed,
            saved, everSaved>>
ledger == <<users, credits, txlog, pc, req, held, pend>>

\* ------------------------------------------------------------- documents
NoUser ==
  [exists |-> FALSE, accountStatus |-> "active", isEmailVerified |-> FALSE,
   emailVerificationExpires |-> NoDate, lastLogin |-> NoDate,
   filled |-> {}, profileCompletionPercentage |-> 0, role |-> "user"]

NewUser(expires) ==
  [exists |-> TRUE, accountStatus |-> "active", isEmailVerified |-> FALSE,
   emailVerificationExpires |-> expires, lastLogin |-> NoDate,
   filled |-> {}, profileCompletionPercentage |-> 0, role |-> "user"]

NoBalance ==
  [exists |-> FALSE, balance |-> 0, totalEarned |-> 0, totalSpent |-> 0,
   lastDailyLoginReward |-> NoDate]

\* CreditBalance.create({ user, balance: 0 }) with the schema's defaults
NewBalance ==
  [exists |-> TRUE, balance |-> 0, totalEarned |-> 0, totalSpent |-> 0,
   lastDailyLoginReward |-> NoDate]

\* The store a handler works on, with the error it has thrown so far.
St == [credits |-> credits, txlog |-> txlog, now |-> now, err |-> ""]

Throw(st, msg) == [st EXCEPT !.err = msg]

\* ----------------------------------------------------------------- parseInt
\* A request amount is a decimal number given in tenths, or not a number.
Num(tenths) == [nan |-> FALSE, tenths |-> tenths]
NotANumber == [nan |-> TRUE, tenths |-> 0]

\* parseInt(amount): the integer part, truncated toward zero; NaN stays NaN
ParseInt(raw) ==
  IF raw.nan THEN [nan |-> TRUE, val |-> 0]
  ELSE [nan |-> FALSE,
        val |-> IF raw.tenths >= 0 THEN raw.tenths \div 10
                ELSE -((-raw.tenths) \div 10)]

Abs(n) == IF n < 0 THEN -n ELSE n

\* ------------------------------------------------ credit.model.js methods
\* await this.save(); then new CreditTransaction({...}).save():
\* two independent writes, the second only after the first succeeded.
SaveThenInsert(st, u, doc, tx, f) ==
  IF f = "save" THEN Throw(st, "save failed")
  ELSE IF f = "insert"
       THEN Throw([st EXCEPT !.credits[u] = doc], "insert failed")
       ELSE [st EXCEPT !.credits[u] = doc, !.txlog[u] = Append(@, tx)]

Balance_addCredits(st, u, amount, category, meta, f) ==
  LET c == st.credits[u]
      doc == [c EXCEPT !.balance = @ + amount,
                       !.totalEarned = @ + amount,
                       !.lastDailyLoginReward =
                          IF category = "daily_login" THEN st.now ELSE @]
      tx == [type |-> "earn", amount |-> amount, balance |-> doc.balance,
             category |-> category, meta |-> meta, createdAt |-> st.now]
  IN SaveThenInsert(st, u, doc, tx, f)

Balance_deductCredits(st, u, amount, category, meta, f) ==
  LET c == st.credits[u]
      doc == [c EXCEPT !.balance = @ - amount, !.totalSpent = @ + amount]
      tx == [type |-> "spend", amount |-> -amount, balance |-> doc.balance,
             category |-> category, meta |-> meta, createdAt |-> st.now]
  IN IF c.balance < amount THEN Throw(st, "Insufficient credits")
     ELSE SaveThenInsert(st, u, doc, tx, f)

\* Mutant: a negative adjustment is booked on balance only.
Balance_adjustCredits_NoSpent(st, u, amount, meta, f) ==
  LET c == st.credits[u]
      doc == IF amount > 0
             THEN [c EXCEPT !.balance = @ + amount, !.totalEarned = @ + amount]
             ELSE [c EXCEPT !.balance = @ + amount]
      tx == [type |-> "adjustment", amount |-> amount, balance |-> doc.balance,
             category |-> "admin_adjustment", meta |-> meta,
             createdAt |-> st.now]
  IN SaveThenInsert(st, u, doc, tx, f)

Balance_adjustCredits(st, u, amount, meta, f) ==
  LET c == st.credits[u]
      doc == IF amount > 0
             THEN [c EXCEPT !.balance = @ + amount, !.totalEarned = @ + amount]
             ELSE [c EXCEPT !.balance = @ + amount,
                            !.totalSpent = @ + Abs(amount)]
      tx == [type |-> "adjustment", amount |-> amount, balance |-> doc.balance,
             category |-> "admin_adjustment", meta |-> meta,
             createdAt |-> st.now]
  IN SaveThenInsert(st, u, doc, tx, f)

\* ---------------------------------------------- credit.service.js methods
\* NotificationService.createNotification rethrows its own failure.
Notify(st, f) == IF st.err = "" /\ f = "notify" THEN Throw(st, "notify failed") ELSE st

\* findOne({ user }) and, when there is none, CreditBalance.create
FindOrCreate(st, u) ==
  IF st.credits[u].exists THEN st ELSE [st EXCEPT !.credits[u] = NewBalance]

Service_addCredits(st, u, amount, category, meta, f) ==
  LET creditAmount == ParseInt(amount)
  IN IF creditAmount.nan \/ creditAmount.val <= 0
     THEN Throw(st, "Invalid credit amount")
     ELSE Notify(Balance_addCredits(FindOrCreate(st, u), u, creditAmount.val,
                                    category, meta, f), f)

\* Mutant: the service leaves the balance check out and the model method
\* does not make it either.
Service_deductCredits_NoFloor(st, u, amount, category, meta, f) ==
  LET creditAmount == ParseInt(amount)
      c == st.credits[u]
      doc == [c EXCEPT !.balance = @ - creditAmount.val,
                       !.totalSpent = @ + creditAmount.val]
      tx == [type |-> "spend", amount |-> -creditAmount.val,
             balance |-> doc.balance, category |-> category, meta |-> meta, createdAt |-> st.now]
  IN IF creditAmount.nan \/ creditAmount.val <= 0
     THEN Throw(st, "Invalid credit amount")
     ELSE IF ~st.credits[u].exists
     THEN Throw(st, "Credit balance not found")
     ELSE Notify(SaveThenInsert(st, u, doc, tx, f), f)

Service_deductCredits(st, u, amount, category, meta, f) ==
  LET creditAmount == ParseInt(amount)
  IN IF creditAmount.nan \/ creditAmount.val <= 0
     THEN Throw(st, "Invalid credit amount")
     ELSE IF ~st.credits[u].exists
     THEN Throw(st, "Credit balance not found")
     ELSE IF st.credits[u].balance < creditAmount.val
     THEN Throw(st, "Insufficient credits")
     ELSE Notify(Balance_deductCredits(st, u, creditAmount.val, category,
                                       meta, f), f)

\* Mutant: an adjustment that would take the balance below zero is refused.
Service_adjustCredits_Floor(st, u, amount, f) ==
  LET adjustmentAmount == ParseInt(amount)
  IN IF adjustmentAmount.nan \/ adjustmentAmount.val = 0
     THEN Throw(st, "Invalid adjustment amount")
     ELSE IF st.credits[u].balance + adjustmentAmount.val < 0
     THEN Throw(st, "Insufficient credits")
     ELSE Notify(Balance_adjustCredits(FindOrCreate(st, u), u,
                                       adjustmentAmount.val, "admin", f), f)

Service_adjustCredits(st, u, amount, f) ==
  LET adjustmentAmount == ParseInt(amount)
  IN IF adjustmentAmount.nan \/ adjustmentAmount.val = 0
     THEN Throw(st, "Invalid adjustment amount")
     ELSE Notify(Balance_adjustCredits(FindOrCreate(st, u), u,
                                       adjustmentAmount.val, "admin", f), f)

\* ------------------------------------------ content interaction rewards
\* names every object inherits from Object.prototype
InheritedKeys == {"constructor", "toString"}

\* rewards[interactionType] || 1: the rewards literal has save, share and
\* comment; an inherited name finds the inherited member, which is truthy
\* and not a number; any other name is undefined and gives 1
RewardFor(interactionType) ==
  CASE interactionType = "save" -> Num(20)
    [] interactionType = "share" -> Num(50)
    [] interactionType = "comment" -> Num(30)
    [] interactionType \in InheritedKeys -> NotANumber
    [] OTHER -> Num(10)

awardContentInteractionCredits(st, u, interactionType, f) ==
  Service_addCredits(st, u, RewardFor(interactionType), "content_interaction",
                     interactionType, f)

\* --------------------------------------------- profile completion rewards
Milestones ==
  << [percentage |-> 25, credits |-> 10, meta |-> "milestone 25"],
     [percentage |-> 50, credits |-> 15, meta |-> "milestone 50"],
     [percentage |-> 75, credits |-> 25, meta |-> "milestone 75"],
     [percentage |-> 100, credits |-> 50, meta |-> "milestone 100"] >>

NoFault == [at |-> 0, f |-> "none"]

\* Mutant: a milestone already reached (old = threshold) is awarded again.
Reached_OldInclusive(milestone, oldPercentage, newPercentage) ==
  oldPercentage <= milestone.percentage /\ newPercentage >= milestone.percentage

\* the test of the loop: has the user newly reached this milestone
Reached(milestone, oldPercentage, newPercentage) ==
  oldPercentage < milestone.percentage /\ newPercentage >= milestone.percentage

\* The loop from milestone i on.  fault.f strikes the addCredits call made for
\* the milestone fault.at; the first call that throws ends the loop, and the
\* error is logged, not rethrown.
RECURSIVE RewardsFrom(_, _, _, _, _, _)
RewardsFrom(st, u, oldPercentage, newPercentage, i, fault) ==
  IF i > Len(Milestones) THEN st
  ELSE LET milestone == Milestones[i]
       IN IF Reached(milestone, oldPercentage, newPercentage)
          THEN LET r == Service_addCredits(st, u, Num(10 * milestone.credits),
                          "profile_completion", milestone.meta,
                          IF fault.at = milestone.percentage THEN fault.f ELSE "none")
               IN IF r.err # "" THEN Throw(r, "")
                  ELSE RewardsFrom(r, u, oldPercentage, newPercentage, i + 1, fault)
          ELSE RewardsFrom(st, u, oldPercentage, newPercentage, i + 1, fault)

processProfileCompletionRewards(st, u, oldPercentage, newPercentage, fault) ==
  RewardsFrom(st, u, oldPercentage, newPercentage, 1, fault)

\* ---------------------------------------------------------- user profile
RequiredFields == {"firstName", "lastName", "profileImage", "bio"}

\* Math.round((completedFields / requiredFields.length) * 100)
calculateProfileCompletion(filled) ==
  (2 * 100 * Cardinality(filled \cap RequiredFields) + Cardinality(RequiredFields))
    \div (2 * Cardinality(RequiredFields))

\* ----------------------------------------------------- content.model.js
Sources == {"twitter", "reddit", "linkedin"}
SourceIds == {"abc123", "def456"}
ContentKeys == Sources \X SourceIds
ContentTypeEnum == {"post", "tweet", "article", "comment", "other"}

\* a || b on numbers: 0 is falsy
OrElse(a, b) == IF a # 0 THEN a ELSE b

updateEngagementMetrics(row, likes, comments, shares) ==
  LET l == OrElse(likes, row.likes)
      c == OrElse(comments, row.comments)
      s == OrElse(shares, row.shares)
  IN [row EXCEPT !.likes = l, !.comments = c, !.shares = s,
                 !.totalEngagement = l + c + s]

refreshCache(row, expirationHours, t) ==
  [row EXCEPT !.cacheExpiration = t + expirationHours]

\* Mutant: the index on (sourceId, source) is not unique.
Insertable_NoUniqueIndex(rows, post) ==
  /\ post.source \in Sources
  /\ post.contentType \in ContentTypeEnum

\* schema validation of a new document, and the unique index on
\* (sourceId, source)
Insertable(rows, post) ==
  /\ post.source \in Sources
  /\ post.contentType \in ContentTypeEnum
  /\ \A i \in DOMAIN rows :
       ~(rows[i].source = post.source /\ rows[i].sourceId = post.sourceId)

\* Content.findOne({ source, sourceId }): the first match, 0 for none
FindOne_Content(rows, source, sourceId) ==
  IF \E i \in DOMAIN rows : rows[i].source = source /\ rows[i].sourceId = sourceId
  THEN CHOOSE i \in DOMAIN rows :
         /\ rows[i].source = source /\ rows[i].sourceId = sourceId
         /\ \A j \in 1..(i - 1) :
              ~(rows[j].source = source /\ rows[j].sourceId = sourceId)
  ELSE 0

\* savePostsToDatabase / saveTweetsToDatabase: the loop over the batch; a
\* post whose save throws is logged and skipped.
RECURSIVE saveToDatabase(_, _, _, _)
saveToDatabase(rows, source, posts, t) ==
  IF posts = <<>> THEN rows
  ELSE LET post == Head(posts)
           i == FindOne_Content(rows, source, post.sourceId)
           next ==
             IF i # 0
             THEN [rows EXCEPT ![i] =
                     refreshCache(updateEngagementMetrics(@, post.likes,
                                    post.comments, post.shares), CacheHours, t)]
             ELSE IF Insertable(rows, post) THEN Append(rows, post)
             ELSE rows
       IN saveToDatabase(next, source, Tail(posts), t)

NeverIngested ==
  [times |-> 0, likes |-> 0, comments |-> 0, shares |-> 0, at |-> 0,
   expirationBefore |-> NoDate]

\* ------------------------------------------------------- report.model.js
ReasonEnum == {"inappropriate", "offensive", "spam", "misinformation",
               "copyright", "illegal", "hate_speech", "violence",
               "harassment", "other"}

\* Content _ids: the n-th inserted document has id n
ContentIds == {1, 2}

\* Content.findById(contentId)
FindById(rows, contentId) == contentId \in DOMAIN rows

\* Report.findOne({ reporter, content })
HasReported(reps, userId, contentId) ==
  \E i \in DOMAIN reps : reps[i].reporter = userId /\ reps[i].content = contentId

\* new Report({...}): the schema validates reason; no index is unique
NewReport(userId, contentId, reason) ==
  [reporter |-> userId, content |-> contentId, reason |-> reason,
   status |-> "pending", actionTaken |-> "none"]

\* Mutant: the check for an existing report is left out.
reportContent_NoCheck(rows, reps, userId, contentId, reason) ==
  IF ~FindById(rows, contentId) THEN [reports |-> reps, err |-> "Content not found"]
  ELSE IF reason \notin ReasonEnum
  THEN [reports |-> reps, err |-> "Report validation failed"]
  ELSE [reports |-> Append(reps, NewReport(userId, contentId, reason)), err |-> ""]

reportContent(rows, reps, userId, contentId, reason) ==
  IF ~FindById(rows, contentId) THEN [reports |-> reps, err |-> "Content not found"]
  ELSE IF HasReported(reps, userId, contentId)
  THEN [reports |-> reps, err |-> "You have already reported this content"]
  ELSE IF reason \notin ReasonEnum
  THEN [reports |-> reps, err |-> "Report validation failed"]
  ELSE [reports |-> Append(reps, NewReport(userId, contentId, reason)), err |-> ""]

NoFeed == [op |-> "none", given |-> FALSE, sources |-> {}, failed |-> {},
           likes |-> 0, fetched |-> 0, hits |-> {}, items |-> {}]

NoJob == [at |-> "idle", op |-> "none", user |-> "u1", contentId |-> 0,
          reason |-> "", post |-> <<>>, doc |-> <<>>, logged |-> ""]

NoReq == [op |-> "none", user |-> "u1", amount |-> 0]

\* ------------------------------------------------------------------- Init
Init ==
  /\ users = [u \in Users |-> NoUser]
  /\ credits = [u \in Users |-> NoBalance]
  /\ txlog = [u \in Users |-> <<>>]
  /\ now = 0
  /\ result = ""
  /\ steps = 0
  /\ pc = [p \in Procs |-> "idle"]
  /\ req = [p \in Procs |-> NoReq]
  /\ held = [p \in Procs |-> NoBalance]
  /\ pend = [p \in Procs |-> <<>>]
  /\ content = <<>>
  /\ ingested = [k \in ContentKeys |-> NeverIngested]
  /\ reports = <<>>
  /\ job = [p \in Procs |-> NoJob]
  /\ feed = NoFeed
  /\ saved = <<>>
  /\ everSaved = [u \in Users |-> 0]

\* --------------------------------------------------- auth.service.js
\* Mutant: the reward is given on every login.
handleDailyLoginReward_NoCooldown(st, u, f) ==
  IF ~st.credits[u].exists THEN st
  ELSE Throw(Notify(Balance_addCredits(st, u, DefaultDailyLoginCredits,
                                       "daily_login", "none", f), f), "")

\* Mutant: the reward is given from 20 hours on, not after more than 20.
handleDailyLoginReward_AtCooldown(st, u, f) ==
  LET creditBalance == st.credits[u]
      lastReward == creditBalance.lastDailyLoginReward
  IN IF ~creditBalance.exists THEN st
     ELSE IF lastReward = NoDate \/ (st.now - lastReward) >= CooldownHours
     THEN Throw(Notify(Balance_addCredits(st, u, DefaultDailyLoginCredits,
                                          "daily_login", "none", f), f), "")
     ELSE st

\* handleDailyLoginReward: every error is caught and logged, none rethrown.
handleDailyLoginReward(st, u, f) ==
  LET creditBalance == st.credits[u]
      lastReward == creditBalance.lastDailyLoginReward
  IN IF ~creditBalance.exists THEN st
     ELSE IF lastReward = NoDate \/ (st.now - lastReward) > CooldownHours
     THEN Throw(Notify(Balance_addCredits(st, u, DefaultDailyLoginCredits,
                                          "daily_login", "none", f), f), "")
     ELSE st

\* A handler ran: its store writes and what it returned.
Returns(st) ==
  /\ credits' = st.credits
  /\ txlog' = st.txlog
  /\ result' = st.err
  /\ steps' = steps + 1

\* ---------------------------------------------------------------- actions
AddAmounts == {Num(0), Num(10), Num(25)}
DeductAmounts == {Num(10), Num(25)}
AdjustAmounts == {Num(-10), Num(0), Num(20)}

AddCredits(u, amount, f) ==
  /\ steps < MaxSteps
  /\ Returns(Service_addCredits(St, u, amount, "special_event", "none", f))
  /\ UNCHANGED <<users, now, flight>>

DeductCredits(u, amount, f) ==
  /\ steps < MaxSteps
  /\ Returns(Service_deductCredits(St, u, amount, "feature_usage", "none", f))
  /\ UNCHANGED <<users, now, flight>>

AdjustCredits(u, amount, f) ==
  /\ steps < MaxSteps
  /\ Returns(Service_adjustCredits(St, u, amount, f))
  /\ UNCHANGED <<users, now, flight>>

\* register: user.save(), then CreditBalance.create; f = "save" fails the
\* first, f = "insert" the second (the user is then left without a balance).
Register(u, f) ==
  /\ steps < MaxSteps
  /\ IF users[u].exists
     THEN /\ result' = "Email is already registered"
          /\ UNCHANGED <<users, credits>>
     ELSE IF f = "save"
     THEN /\ result' = "save failed"
          /\ UNCHANGED <<users, credits>>
     ELSE /\ users' = [users EXCEPT ![u] = NewUser(now + VerificationTokenHours)]
          /\ IF f = "insert"
             THEN result' = "insert failed" /\ UNCHANGED credits
             ELSE IF credits[u].exists   \* the unique index on user
             THEN result' = "duplicate key" /\ UNCHANGED credits
             ELSE /\ credits' = [credits EXCEPT ![u] = NewBalance]
                  /\ result' = IF f = "notify" THEN "notify failed" ELSE ""
  /\ steps' = steps + 1
  /\ UNCHANGED <<txlog, now, flight>>

\* login: the user is looked up and must be active (the password check is
\* left to bcrypt), lastLogin is saved, then the daily reward is handled.
\* f = "login" fails the lastLogin save; any other f is a fault of the reward.
Login(u, f) ==
  /\ steps < MaxSteps
  /\ IF ~users[u].exists
     THEN Returns(Throw(St, "Invalid email or password")) /\ UNCHANGED users
     ELSE IF users[u].accountStatus # "active"
     THEN Returns(Throw(St, "Your account is not active")) /\ UNCHANGED users
     ELSE IF f = "login"
     THEN Returns(Throw(St, "save failed")) /\ UNCHANGED users
     ELSE /\ users' = [users EXCEPT ![u].lastLogin = now]
          /\ Returns(handleDailyLoginReward(St, u, f))
  /\ UNCHANGED <<now, flight>>

\* verifyEmail(token) for the token last issued to u
VerifyEmail(u, f) ==
  /\ steps < MaxSteps
  /\ IF ~(users[u].exists /\ users[u].emailVerificationExpires # NoDate
          /\ users[u].emailVerificationExpires > now)
     THEN Returns(Throw(St, "Invalid or expired verification token"))
          /\ UNCHANGED users
     ELSE /\ users' = [users EXCEPT ![u].isEmailVerified = TRUE,
                                    ![u].emailVerificationExpires = NoDate]
          /\ IF credits[u].exists
             THEN Returns(Notify(Balance_addCredits(St, u, EmailVerificationReward,
                            "profile_completion", "email_verified", f), f))
             ELSE Returns(Notify(St, f))
  /\ UNCHANGED <<now, flight>>

\* updateEmail: a new address, unverified, with a fresh token
UpdateEmail(u) ==
  /\ steps < MaxSteps
  /\ IF ~users[u].exists
     THEN result' = "User not found" /\ UNCHANGED users
     ELSE /\ users' = [users EXCEPT ![u].isEmailVerified = FALSE,
                 ![u].emailVerificationExpires = now + VerificationTokenHours]
          /\ result' = ""
  /\ steps' = steps + 1
  /\ UNCHANGED <<credits, txlog, now, flight>>

\* deleteAccount only deactivates the account
DeleteAccount(u) ==
  /\ steps < MaxSteps
  /\ IF ~users[u].exists
     THEN result' = "User not found" /\ UNCHANGED users
     ELSE users' = [users EXCEPT ![u].accountStatus = "deactivated"] /\ result' = ""
  /\ steps' = steps + 1
  /\ UNCHANGED <<credits, txlog, now, flight>>

Tick(d) ==
  /\ now + d <= MaxTime
  /\ now' = now + d
  /\ UNCHANGED <<users, credits, txlog, result, steps, flight>>

\* The credit ledger as CreditService exposes it.
Next ==
  \/ \E u \in Users, f \in Faults : Register(u, f)
  \/ \E u \in Users, a \in AddAmounts, f \in Faults : AddCredits(u, a, f)
  \/ \E u \in Users, a \in DeductAmounts, f \in Faults : DeductCredits(u, a, f)
  \/ \E u \in Users, a \in AdjustAmounts, f \in Faults : AdjustCredits(u, a, f)

Spec == Init /\ [][Next]_vars

\* Accounts and the rewards of auth.service.js, with the clock.
NextAuth ==
  \/ \E u \in Users, f \in Faults : Register(u, f)
  \/ \E u \in Users, f \in Faults \cup {"login"} : Login(u, f)
  \/ \E u \in Users, f \in Faults : VerifyEmail(u, f)
  \/ \E u \in Users : UpdateEmail(u)
  \/ \E u \in Users : DeleteAccount(u)
  \/ \E d \in TickHours : Tick(d)

SpecAuth == Init /\ [][NextAuth]_vars

\* ------------------------------------------ profile updates and rewards
\* profileData: the fields it sets to a non-empty value and those it sets to
\* an empty one; a field in neither is undefined in the request.
ProfileData ==
  {d \in [set : SUBSET RequiredFields, clear : SUBSET RequiredFields] :
     d.set \cap d.clear = {} /\ Cardinality(d.set \cup d.clear) \in 1..2}

RewardFaults ==
  {NoFault, [at |-> 25, f |-> "notify"], [at |-> 25, f |-> "insert"],
   [at |-> 50, f |-> "save"]}

\* updateUserProfile; f = "save" fails user.save(), before any reward
UpdateUserProfile(u, profileData, fault) ==
  /\ steps < MaxSteps
  /\ IF ~users[u].exists
     THEN Returns(Throw(St, "User not found")) /\ UNCHANGED users
     ELSE LET oldPercentage == users[u].profileCompletionPercentage
              filled == (users[u].filled \cup profileData.set) \ profileData.clear
              newPercentage == calculateProfileCompletion(filled)
          IN IF fault.at = 0 /\ fault.f = "save"
             THEN Returns(Throw(St, "save failed")) /\ UNCHANGED users
             ELSE /\ users' = [users EXCEPT ![u].filled = filled,
                                  ![u].profileCompletionPercentage = newPercentage]
                  /\ IF newPercentage > oldPercentage
                     THEN Returns(processProfileCompletionRewards(
                                    St, u, oldPercentage, newPercentage, fault))
                     ELSE Returns(St)
  /\ UNCHANGED <<now, flight>>

NextProfile ==
  \/ \E u \in Users, f \in Faults : Register(u, f)
  \/ \E u \in Users, d \in ProfileData,
        fault \in RewardFaults \cup {[at |-> 0, f |-> "save"]} :
          UpdateUserProfile(u, d, fault)

SpecProfile == Init /\ [][NextProfile]_vars

\* CreditService.processProfileCompletionRewards called directly
Percentages == {0, 20, 25, 50, 60, 75, 100}

ProcessProfileCompletionRewards(u, oldPercentage, newPercentage, fault) ==
  /\ steps < MaxRewardCalls
  /\ Returns(processProfileCompletionRewards(St, u, oldPercentage, newPercentage, fault))
  /\ UNCHANGED <<users, now, flight>>

NextRewards ==
  \E u \in Users, oldPercentage \in Percentages, newPercentage \in Percentages,
     fault \in RewardFaults :
       ProcessProfileCompletionRewards(u, oldPercentage, newPercentage, fault)

SpecRewards == Init /\ [][NextRewards]_vars

\* ------------------------------------------------------ content ingestion
\* What normalizePosts / normalizeTweets hand over for one fetched item:
\* cacheExpiration is taken when the item is normalized.
RedditPost(id, contentType, ups, numComments) ==
  [source |-> "reddit", sourceId |-> id, contentType |-> contentType,
   likes |-> ups, comments |-> numComments, shares |-> 0,
   totalEngagement |-> ups + numComments,
   cacheExpiration |-> now + CacheHours, isInappropriate |-> FALSE]

\* a tweet without replies: reply_count || 0 is 0
Tweet(id, likeCount, retweetCount) ==
  [source |-> "twitter", sourceId |-> id, contentType |-> "tweet",
   likes |-> likeCount, comments |-> 0, shares |-> retweetCount,
   totalEngagement |-> likeCount + retweetCount,
   cacheExpiration |-> now + CacheHours, isInappropriate |-> FALSE]

\* a self post is normalized to contentType "text"
RedditPosts ==
  {RedditPost(id, ct, ups, n) :
     id \in SourceIds, ct \in {"post", "text"}, ups \in {0, 5}, n \in {3}}

Tweets == {Tweet("abc123", l, r) : l \in {0, 5}, r \in {0, 2}}

Batches(posts) ==
  {<<a>> : a \in posts}
    \cup {<<a, b>> : a \in posts, b \in {x \in posts : x.sourceId = "abc123"}}

\* history of the upsert: the last item handed over per key
RECURSIVE Record(_, _, _)
Record(hist, rows, posts) ==
  IF posts = <<>> THEN hist
  ELSE LET post == Head(posts)
           k == <<post.source, post.sourceId>>
           i == FindOne_Content(rows, post.source, post.sourceId)
       IN Record([hist EXCEPT ![k] =
                   [times |-> IF @.times < 2 THEN @.times + 1 ELSE 2,
                    likes |-> post.likes, comments |-> post.comments,
                    shares |-> post.shares, at |-> now,
                    expirationBefore |->
                      IF i = 0 THEN NoDate ELSE rows[i].cacheExpiration]],
                 saveToDatabase(rows, post.source, <<post>>, now), Tail(posts))

Ingest(source, posts) ==
  /\ steps < MaxIngests
  /\ steps' = steps + 1
  /\ content' = saveToDatabase(content, source, posts, now)
  /\ ingested' = Record(ingested, content, posts)
  /\ result' = ""
  /\ UNCHANGED <<ledger, now, saved, everSaved, reports, job, feed>>

SavePostsToDatabase(posts) == Ingest("reddit", posts)

SaveTweetsToDatabase(tweets) == Ingest("twitter", tweets)

NextIngest ==
  \/ \E posts \in Batches(RedditPosts) : SavePostsToDatabase(posts)
  \/ \E tweets \in Batches(Tweets) : SaveTweetsToDatabase(tweets)
  \/ \E d \in TickHours : Tick(d)

SpecIngest == Init /\ [][NextIngest]_vars

\* ------------------------------------- interaction rewards and adjustments
InteractionTypes == {"save", "share", "comment", "like", "constructor"}
AdminAmounts == {Num(20), Num(-1000), Num(0)}

AwardContentInteractionCredits(u, interactionType, f) ==
  /\ steps < MaxSteps
  /\ Returns(awardContentInteractionCredits(St, u, interactionType, f))
  /\ UNCHANGED <<users, now, flight>>

NextInteract ==
  \/ \E u \in Users, t \in InteractionTypes, f \in {"none", "notify"} :
        AwardContentInteractionCredits(u, t, f)
  \/ \E u \in Users, a \in AdminAmounts, f \in {"none", "save"} :
        AdjustCredits(u, a, f)

SpecInteract == Init /\ [][NextInteract]_vars

\* ------------------------------------------------------------- the refresh
\* What a refresh fetches from: one user handle and one hashtag on Twitter,
\* one subreddit and the trending listing (r/all) on Reddit.
Targets == {"handle", "hashtag", "subreddit", "trending"}
TargetsOf(source) ==
  CASE source = "twitter" -> {"handle", "hashtag"}
    [] source = "reddit" -> {"subreddit", "trending"}
    [] OTHER -> {}

\* the normalized items a target returns when its fetch succeeds
Items(target, likes) ==
  CASE target = "handle" -> <<Tweet("abc123", likes, 2)>>
    [] target = "hashtag" -> <<Tweet("def456", 5, 0)>>
    [] target = "subreddit" -> <<RedditPost("abc123", "post", likes, 3)>>
    [] target = "trending" -> <<RedditPost("def456", "post", 5, 3)>>

\* the loop over handles / hashtags / subreddits: a target that throws is
\* logged and skipped
FetchEach(targets, failed, likes) ==
  IF targets \subseteq failed THEN <<>>
  ELSE Items(CHOOSE t \in targets : t \notin failed, likes)

fetchTweetsFromUsers(failed, likes) == FetchEach({"handle"}, failed, likes)
fetchTweetsFromHashtags(failed, likes) == FetchEach({"hashtag"}, failed, likes)
fetchSubredditPosts(failed, likes) == FetchEach({"subreddit"}, failed, likes)

\* fetchAndSaveTweets: both fetches, then one save of everything fetched
fetchAndSaveTweets(rows, failed, likes) ==
  LET allTweets == fetchTweetsFromUsers(failed, likes)
                     \o fetchTweetsFromHashtags(failed, likes)
  IN [content |-> saveToDatabase(rows, "twitter", allTweets, now),
      handed |-> allTweets, fetched |-> Len(allTweets), err |-> ""]

\* fetchAndSavePosts: fetchTrendingPosts has no handler of its own, its
\* error leaves fetchAndSavePosts before anything is saved
fetchAndSavePosts(rows, failed, likes) ==
  IF "trending" \in failed
  THEN [content |-> rows, handed |-> <<>>, fetched |-> 0,
        err |-> "trending fetch failed"]
  ELSE LET allPosts == fetchSubredditPosts(failed, likes)
                         \o Items("trending", likes)
       IN [content |-> saveToDatabase(rows, "reddit", allPosts, now),
           handed |-> allPosts, fetched |-> Len(allPosts), err |-> ""]

NothingFetched(rows) ==
  [content |-> rows, handed |-> <<>>, fetched |-> 0, err |-> ""]

\* refreshFeedContent(sources): Twitter first, then Reddit
refreshFeedContent(rows, sources, failed, likes) ==
  LET tw == IF "twitter" \in sources
            THEN fetchAndSaveTweets(rows, failed, likes)
            ELSE NothingFetched(rows)
      rd == IF "reddit" \in sources
            THEN fetchAndSavePosts(tw.content, failed, likes)
            ELSE NothingFetched(tw.content)
  IN [content |-> rd.content, tweets |-> tw.handed, posts |-> rd.handed,
      fetched |-> IF rd.err = "" THEN tw.fetched + rd.fetched ELSE 0,
      err |-> rd.err]

RefreshSources == {{"twitter"}, {"reddit"}, {"twitter", "reddit"}}

\* a call of refreshFeedContent and what it leaves behind
Refreshes(sources, failed, likes) ==
  /\ steps' = steps + 1
  /\ LET r == refreshFeedContent(content, sources, failed, likes)
     IN /\ content' = r.content
        /\ ingested' = Record(Record(ingested, content, r.tweets),
                              saveToDatabase(content, "twitter", r.tweets, now),
                              r.posts)
        /\ result' = r.err
        /\ feed' = [NoFeed EXCEPT !.op = "refresh", !.sources = sources,
                                  !.failed = failed, !.likes = likes,
                                  !.fetched = r.fetched]
  /\ UNCHANGED <<ledger, now, saved, everSaved, reports, job>>

RefreshFeedContent(sources, failed, likes) ==
  /\ steps < MaxIngests
  /\ Refreshes(sources, failed, likes)

NextRefresh ==
  \/ \E sources \in RefreshSources, failed \in SUBSET Targets, likes \in {0, 5} :
        RefreshFeedContent(sources, failed, likes)
  \/ \E d \in TickHours : Tick(d)

SpecRefresh == Init /\ [][NextRefresh]_vars

\* ------------------------------------------------------------ saved content
\* options of saveContent: folder, tags and notes, with their defaults
DefaultOptions == [folder |-> "General", tags |-> {}, notes |-> ""]
SaveOptions == {DefaultOptions, [folder |-> "Work", tags |-> {"read"}, notes |-> "later"]}

\* SavedContent.findOne({ user, content }): the index of the row, 0 if none
FindOne_Saved(svd, userId, contentId) ==
  IF \E i \in DOMAIN svd : svd[i].user = userId /\ svd[i].content = contentId
  THEN CHOOSE i \in DOMAIN svd :
         /\ svd[i].user = userId /\ svd[i].content = contentId
         /\ \A j \in DOMAIN svd :
              svd[j].user = userId /\ svd[j].content = contentId => i <= j
  ELSE 0

\* the unique index on (user, content)
Insertable_Saved(svd, userId, contentId) == FindOne_Saved(svd, userId, contentId) = 0

NewSaved(userId, contentId, options) ==
  [user |-> userId, content |-> contentId, folder |-> options.folder,
   tags |-> options.tags, notes |-> options.notes]

\* the rest of saveContent once no row was found: insert, then the award
SaveNew(st, svd, userId, contentId, options, f) ==
  IF ~Insertable_Saved(svd, userId, contentId)
  THEN [st |-> Throw(st, "duplicate key"), saved |-> svd, created |-> FALSE,
        message |-> ""]
  ELSE [st |-> awardContentInteractionCredits(st, userId, "save", f),
        saved |-> Append(svd, NewSaved(userId, contentId, options)),
        created |-> TRUE, message |-> "Content saved successfully"]

\* Mutant: saveContent does not look for an existing row.
saveContent_NoFindOne(st, rows, svd, userId, contentId, options, f) ==
  IF ~FindById(rows, contentId)
  THEN [st |-> Throw(st, "Content not found"), saved |-> svd, created |-> FALSE,
        message |-> ""]
  ELSE SaveNew(st, svd, userId, contentId, options, f)

\* f strikes the award; a failed award leaves the inserted row in place
saveContent(st, rows, svd, userId, contentId, options, f) ==
  IF ~FindById(rows, contentId)
  THEN [st |-> Throw(st, "Content not found"), saved |-> svd, created |-> FALSE,
        message |-> ""]
  ELSE LET i == FindOne_Saved(svd, userId, contentId)
       IN IF i # 0
          THEN [st |-> st,
                saved |-> [svd EXCEPT ![i].folder = options.folder,
                                      ![i].tags = options.tags,
                                      ![i].notes = options.notes],
                created |-> FALSE, message |-> "Content updated in saved items"]
          ELSE SaveNew(st, svd, userId, contentId, options, f)

\* SavedContent.findOneAndDelete({ user, content })
unsaveContent(svd, userId, contentId) ==
  LET i == FindOne_Saved(svd, userId, contentId)
  IN IF i = 0 THEN [saved |-> svd, err |-> "Saved content not found"]
     ELSE [saved |-> SubSeq(svd, 1, i - 1) \o SubSeq(svd, i + 1, Len(svd)),
           err |-> ""]

\* The strings compared by getUserFeed: the hex string of an ObjectId, and
\* what Object.prototype.toString gives for a plain object.
ObjectIdString(id) == <<"ObjectId", id>>
PlainObjectString == <<"[object Object]", 0>>

\* pre(/^find/): every find on SavedContent populates content, so a lean row
\* holds the Content document as a plain object, or null when it is gone
Populated(rows, row) ==
  IF FindById(rows, row.content)
  THEN [isNull |-> FALSE, string |-> PlainObjectString]
  ELSE [isNull |-> TRUE, string |-> PlainObjectString]

\* item.content.toString() of every row of the user; a null content throws,
\* and the catch returns the empty list
getUserSavedContentIds(rows, svd, userId) ==
  LET mine == {i \in DOMAIN svd : svd[i].user = userId}
  IN IF \E i \in mine : Populated(rows, svd[i]).isNull THEN {}
     ELSE {Populated(rows, svd[i]).string : i \in mine}

\* item.toObject() with its isSaved flag
ToObject(rows, id, savedContentIds) ==
  [k \in DOMAIN rows[id] \cup {"id", "isSaved"} |->
     CASE k = "id" -> id
       [] k = "isSaved" -> ObjectIdString(id) \in savedContentIds
       [] OTHER -> rows[id][k]]

\* ---------------------------------------------------------------- the feed
\* options.sources: not given (null), or the list that was given
NoSources == [given |-> FALSE, list |-> {}]
Given(list) == [given |-> TRUE, list |-> list]

\* the sources switched on in user.preferences.contentSources, twitter and
\* reddit when none is
getEnabledSourcesFromPreferences(enabled) ==
  IF enabled = {} THEN {"twitter", "reddit"} ELSE enabled

\* sources || preferences: a given list counts even when it is empty
IncludeSources(sources, enabled) ==
  IF sources.given THEN sources.list
  ELSE getEnabledSourcesFromPreferences(enabled)

\* Mutant: the query does not filter on isInappropriate.
Matches_AlsoFlagged(row, includeSources) ==
  includeSources # {} => row.source \in includeSources

\* the query: isInappropriate false, and source among the included sources
\* when there are any
Matches(row, includeSources) ==
  /\ ~row.isInappropriate
  /\ includeSources # {} => row.source \in includeSources

\* getUserFeed after its refresh: every document that matches the query (a
\* page of the sorted result, narrowed further by the categories filter,
\* is a part of it)
getUserFeed(usrs, rows, svd, userId, sources, enabled) ==
  IF ~usrs[userId].exists THEN [items |-> {}, err |-> "User not found"]
  ELSE [items |-> {ToObject(rows, i, getUserSavedContentIds(rows, svd, userId)) :
                     i \in {j \in DOMAIN rows :
                      Matches(rows[j], IncludeSources(sources, enabled))}},
        err |-> ""]

\* a Content document as a query returns it
Document(rows, id) ==
  [k \in DOMAIN rows[id] \cup {"id"} |-> IF k = "id" THEN id ELSE rows[id][k]]

\* Mutant: the search query does not filter on isInappropriate.
SearchMatches_AlsoFlagged(row, sources) ==
  (sources.given /\ sources.list # {}) => row.source \in sources.list

\* the search query besides its text match: isInappropriate false, and
\* source among the given sources when there are any
SearchMatches(row, sources) ==
  /\ ~row.isInappropriate
  /\ (sources.given /\ sources.list # {}) => row.source \in sources.list

\* searchContent: hits are the documents whose title, text, author or
\* categories match the query string (a page of the sorted result is a
\* part of it)
searchContent(rows, hits, sources) ==
  [items |-> {Document(rows, i) :
                i \in {j \in DOMAIN rows : j \in hits /\ SearchMatches(rows[j], sources)}},
   err |-> ""]

SourcesOptions ==
  {NoSources, Given({}), Given({"twitter"}), Given({"twitter", "reddit"})}

\* user.preferences.contentSources as the requests find it
EnabledChoices == {{}, {"reddit"}}

\* GET /feed: user.preferences is read as stored; every value it can hold
\* is an input here.  With refresh=true the content is refreshed first.
GetUserFeed(u, sources, enabled, isRefresh, failed) ==
  /\ isRefresh => steps < MaxIngests
  /\ steps' = IF isRefresh THEN steps + 1 ELSE steps
  /\ LET include == IncludeSources(sources, enabled)
         rf == IF users[u].exists /\ isRefresh
               THEN refreshFeedContent(content, include, failed, 5)
               ELSE [content |-> content, tweets |-> <<>>, posts |-> <<>>,
                     fetched |-> 0, err |-> ""]
         r == IF rf.err # "" THEN [items |-> {}, err |-> rf.err]
              ELSE getUserFeed(users, rf.content, saved, u, sources, enabled)
     IN /\ content' = rf.content
        /\ ingested' = Record(Record(ingested, content, rf.tweets),
                              saveToDatabase(content, "twitter", rf.tweets, now),
                              rf.posts)
        /\ result' = r.err
        /\ feed' = [NoFeed EXCEPT !.op = "feed", !.given = sources.given,
                                  !.sources = sources.list, !.items = r.items]
  /\ UNCHANGED <<ledger, now, saved, everSaved, reports, job>>

\* POST /feed/save and DELETE /feed/save/:contentId
SaveContent(u, contentId, options, f) ==
  /\ steps < MaxSteps
  /\ LET r == saveContent(St, content, saved, u, contentId, options, f)
     IN /\ credits' = r.st.credits
        /\ txlog' = r.st.txlog
        /\ saved' = r.saved
        /\ everSaved' = [everSaved EXCEPT ![u] = IF r.created THEN @ + 1 ELSE @]
        /\ result' = IF r.st.err # "" THEN r.st.err ELSE r.message
  /\ steps' = steps + 1
  /\ UNCHANGED <<users, now, pc, req, held, pend, content, ingested, reports,
                 job, feed>>

UnsaveContent(u, contentId) ==
  /\ steps < MaxSteps
  /\ LET r == unsaveContent(saved, u, contentId)
     IN saved' = r.saved /\ result' = r.err
  /\ steps' = steps + 1
  /\ UNCHANGED <<ledger, now, everSaved, content, ingested, reports, job, feed>>

SavedPosts == {<<RedditPost(id, "post", 5, 3)>> : id \in SourceIds}

NextSaved ==
  \/ \E posts \in SavedPosts : SavePostsToDatabase(posts)
  \/ \E u \in Users, c \in ContentIds, o \in SaveOptions, f \in Faults :
        SaveContent(u, c, o, f)
  \/ \E u \in Users, c \in ContentIds : UnsaveContent(u, c)
  \/ \E u \in {"u1"} : Register(u, "none")
  \/ \E u \in {"u1"}, sources \in {NoSources}, enabled \in {{}} :
        GetUserFeed(u, sources, enabled, FALSE, {})

SpecSaved == Init /\ [][NextSaved]_vars

\* GET /feed/search
SearchContent(hits, sources) ==
  /\ LET r == searchContent(content, hits, sources)
     IN /\ result' = r.err
        /\ feed' = [NoFeed EXCEPT !.op = "search", !.given = sources.given,
                                  !.sources = sources.list, !.hits = hits,
                                  !.items = r.items]
  /\ UNCHANGED <<ledger, now, saved, everSaved, steps, content, ingested,
                 reports, job>>

\* --------------------------------------------------------- content reports
ReportReasons == {"spam", "boring"}   \* "boring" is not in the enum

ReportContent(u, contentId, reason) ==
  /\ steps < MaxSteps
  /\ steps' = steps + 1
  /\ LET r == reportContent(content, reports, u, contentId, reason)
     IN reports' = r.reports /\ result' = r.err
  /\ UNCHANGED <<ledger, now, saved, everSaved, content, ingested, job, feed>>

\* PUT /admin/reports/:id
ReviewStatuses == {"accepted", "rejected"}
ReviewActions == {"none", "removed"}

markAsReviewed(report, status, actionTaken) ==
  [report EXCEPT !.status = status, !.actionTaken = actionTaken]

ReviewReport(id, status, actionTaken) ==
  /\ steps < MaxSteps
  /\ steps' = steps + 1
  /\ IF id \notin DOMAIN reports
     THEN result' = "Report not found" /\ UNCHANGED <<reports, content>>
     ELSE /\ reports' = [reports EXCEPT ![id] = markAsReviewed(@, status, actionTaken)]
          /\ content' = IF actionTaken = "removed" /\ status = "accepted"
                        THEN [content EXCEPT ![reports[id].content].isInappropriate = TRUE]
                        ELSE content
          /\ result' = ""
  /\ UNCHANGED <<ledger, now, saved, everSaved, ingested, job, feed>>

NextReport ==
  \/ \E posts \in Batches(RedditPosts) : SavePostsToDatabase(posts)
  \/ \E u \in Users, c \in ContentIds, reason \in ReportReasons :
        ReportContent(u, c, reason)

SpecReport == Init /\ [][NextReport]_vars

\* The feed with its moderation: content is refreshed, reported, reviewed
\* and read.
NextFeed ==
  \/ \E u \in Users : Register(u, "none")
  \/ \E sources \in RefreshSources, failed \in {{}, {"hashtag"}} :
        RefreshFeedContent(sources, failed, 5)
  \/ \E u \in Users, c \in ContentIds : ReportContent(u, c, "spam")
  \/ \E id \in {1}, status \in ReviewStatuses, action \in ReviewActions :
        ReviewReport(id, status, action)
  \/ \E u \in Users, sources \in {NoSources, Given({"twitter"})},
        enabled \in EnabledChoices,
        isRefresh \in BOOLEAN, failed \in {{}, {"trending"}} :
        GetUserFeed(u, sources, enabled, isRefresh, failed)

SpecFeed == Init /\ [][NextFeed]_vars

\* reportContent under concurrent requests: it is suspended at each await.
ReportFindById(p, u, contentId, reason) ==
  /\ job[p].at = "idle"
  /\ steps < MaxRequests
  /\ steps' = steps + 1
  /\ IF FindById(content, contentId)
     THEN /\ job' = [job EXCEPT ![p] = [NoJob EXCEPT !.at = "findOne",
                       !.op = "reportContent", !.user = u,
                       !.contentId = contentId, !.reason = reason]]
          /\ UNCHANGED result
     ELSE result' = "Content not found" /\ UNCHANGED job
  /\ UNCHANGED <<ledger, now, saved, everSaved, content, ingested, reports, feed>>

ReportFindOne(p) ==
  /\ job[p].at = "findOne"
  /\ IF HasReported(reports, job[p].user, job[p].contentId)
     THEN /\ result' = "You have already reported this content"
          /\ job' = [job EXCEPT ![p] = NoJob]
     ELSE /\ job' = [job EXCEPT ![p].at = "save"]
          /\ UNCHANGED result
  /\ UNCHANGED <<ledger, now, saved, everSaved, steps, content, ingested, reports, feed>>

ReportSave(p) ==
  /\ job[p].at = "save"
  /\ IF job[p].reason \in ReasonEnum
     THEN /\ reports' = Append(reports, NewReport(job[p].user, job[p].contentId,
                                                  job[p].reason))
          /\ result' = ""
     ELSE result' = "Report validation failed" /\ UNCHANGED reports
  /\ job' = [job EXCEPT ![p] = NoJob]
  /\ UNCHANGED <<ledger, now, saved, everSaved, steps, content, ingested, feed>>

NextReportConc ==
  \/ \E posts \in Batches(RedditPosts) : SavePostsToDatabase(posts)
  \/ \E p \in Procs, u \in Users, c \in ContentIds, reason \in ReportReasons :
        ReportFindById(p, u, c, reason)
  \/ \E p \in Procs : ReportFindOne(p)
  \/ \E p \in Procs : ReportSave(p)

SpecReportConc == Init /\ [][NextReportConc]_vars

\* ------------------------------------------- requests handled concurrently
\* Node runs one request until its next await; the store calls of two
\* requests interleave.  The store itself does not fail here.
ConcAmounts == {Num(10), Num(-10), Num(20)}
ConcOps == {"addCredits", "deductCredits", "adjustCredits"}
ConcUsers == {"u1"}    \* the concurrent requests are for the same user

\* document.save() sends $set of the paths the request modified, nothing else
SetModified(stored, loaded, changed) ==
  [k \in DOMAIN stored |-> IF changed[k] # loaded[k] THEN changed[k] ELSE stored[k]]

\* The model method of the request, run on the request's own document.
OnOwnDocument(p) ==
  LET u == req[p].user
      own == [credits |-> [credits EXCEPT ![u] = held[p]],
              txlog |-> [txlog EXCEPT ![u] = <<>>], now |-> now, err |-> ""]
  IN CASE req[p].op = "addCredits" ->
            Balance_addCredits(own, u, req[p].amount, "special_event", "none", "none")
       [] req[p].op = "deductCredits" ->
            Balance_deductCredits(own, u, req[p].amount, "feature_usage", "none", "none")
       [] req[p].op = "dailyLogin" ->
            Balance_addCredits(own, u, req[p].amount, "daily_login", "none", "none")
       [] OTHER ->
            Balance_adjustCredits(own, u, req[p].amount, "admin", "none")

Fails(p, msg) ==
  /\ result' = msg
  /\ pc' = [pc EXCEPT ![p] = "idle"]
  /\ req' = [req EXCEPT ![p] = NoReq]
  /\ held' = [held EXCEPT ![p] = NoBalance]
  /\ pend' = [pend EXCEPT ![p] = <<>>]

\* The request arrives: the amount is validated and findOne({ user }) runs.
FindOne(p, op, u, amount) ==
  /\ pc[p] = "idle"
  /\ steps < MaxRequests
  /\ steps' = steps + 1
  /\ LET n == ParseInt(amount)
     IN IF n.nan \/ (op # "adjustCredits" /\ n.val <= 0) \/ n.val = 0
        THEN Fails(p, "Invalid credit amount")
        ELSE IF ~credits[u].exists /\ op = "deductCredits"
        THEN Fails(p, "Credit balance not found")
        ELSE IF credits[u].exists /\ op = "deductCredits"
                /\ credits[u].balance < n.val
        THEN Fails(p, "Insufficient credits")
        ELSE /\ req' = [req EXCEPT ![p] = [op |-> op, user |-> u, amount |-> n.val]]
             /\ held' = [held EXCEPT ![p] = credits[u]]
             /\ pc' = [pc EXCEPT ![p] = IF credits[u].exists THEN "found" ELSE "create"]
             /\ UNCHANGED <<result, pend>>
  /\ UNCHANGED <<users, credits, txlog, now, saved, everSaved, content, ingested, reports, job, feed>>

\* CreditBalance.create: the unique index on user rejects a second document.
Create(p) ==
  /\ pc[p] = "create"
  /\ IF credits[req[p].user].exists
     THEN Fails(p, "duplicate key") /\ UNCHANGED credits
     ELSE /\ credits' = [credits EXCEPT ![req[p].user] = NewBalance]
          /\ held' = [held EXCEPT ![p] = NewBalance]
          /\ pc' = [pc EXCEPT ![p] = "found"]
          /\ UNCHANGED <<result, req, pend>>
  /\ UNCHANGED <<users, txlog, now, saved, everSaved, steps, content, ingested, reports, job, feed>>

\* the model method up to and including await this.save()
Save(p) ==
  /\ pc[p] = "found"
  /\ LET r == OnOwnDocument(p)
         u == req[p].user
     IN IF r.err # ""
        THEN Fails(p, r.err) /\ UNCHANGED credits
        ELSE /\ credits' = [credits EXCEPT
                              ![u] = SetModified(@, held[p], r.credits[u])]
             /\ held' = [held EXCEPT ![p] = r.credits[u]]
             /\ pend' = [pend EXCEPT ![p] = r.txlog[u]]
             /\ pc' = [pc EXCEPT ![p] = "saved"]
             /\ UNCHANGED <<result, req>>
  /\ UNCHANGED <<users, txlog, now, saved, everSaved, steps, content, ingested, reports, job, feed>>

\* transaction.save(), the notification, and the response
Insert(p) ==
  /\ pc[p] = "saved"
  /\ txlog' = [txlog EXCEPT ![req[p].user] = @ \o pend[p]]
  /\ Fails(p, "")
  /\ UNCHANGED <<users, credits, now, saved, everSaved, steps, content, ingested, reports, job, feed>>

NextConc ==
  \/ \E p \in Procs, op \in ConcOps, u \in ConcUsers, a \in ConcAmounts :
        FindOne(p, op, u, a)
  \/ \E p \in Procs : Create(p)
  \/ \E p \in Procs : Save(p)
  \/ \E p \in Procs : Insert(p)

SpecConc == Init /\ [][NextConc]_vars

\* ------------------------------------------------------ concurrent logins
\* login up to the findOne of handleDailyLoginReward and its eligibility
\* test: the reward is then given on the document this request loaded.  The
\* save of lastLogin, which no other request reads, is taken with it.
LoginFindOne(p, u) ==
  /\ pc[p] = "idle"
  /\ steps < MaxRequests
  /\ steps' = steps + 1
  /\ IF ~users[u].exists
     THEN Fails(p, "Invalid email or password") /\ UNCHANGED users
     ELSE IF users[u].accountStatus # "active"
     THEN Fails(p, "Your account is not active") /\ UNCHANGED users
     ELSE /\ users' = [users EXCEPT ![u].lastLogin = now]
          /\ LET creditBalance == credits[u]
                 lastReward == creditBalance.lastDailyLoginReward
             IN IF ~creditBalance.exists THEN Fails(p, "")
                ELSE IF lastReward = NoDate \/ (now - lastReward) > CooldownHours
                THEN /\ req' = [req EXCEPT ![p] =
                                  [op |-> "dailyLogin", user |-> u,
                                   amount |-> DefaultDailyLoginCredits]]
                     /\ held' = [held EXCEPT ![p] = creditBalance]
                     /\ pc' = [pc EXCEPT ![p] = "found"]
                     /\ UNCHANGED <<result, pend>>
                ELSE Fails(p, "")
  /\ UNCHANGED <<credits, txlog, now, saved, everSaved, content, ingested,
                 reports, job, feed>>

NextLoginConc ==
  \/ \E u \in ConcUsers : Register(u, "none")
  \/ \E p \in Procs, u \in ConcUsers : LoginFindOne(p, u)
  \/ \E p \in Procs : Save(p)
  \/ \E p \in Procs : Insert(p)
  \/ \E d \in TickHours : Tick(d)

SpecLoginConc == Init /\ [][NextLoginConc]_vars

\* ------------------------------------------------- concurrent ingestion
\* savePostsToDatabase / saveTweetsToDatabase of overlapping refreshes: each
\* request is suspended at every await of its loop body.  ingested here
\* records the item of the last request whose write of the key succeeded.
ConcPosts ==
  {RedditPost("abc123", "post", 5, 3), RedditPost("abc123", "text", 0, 3),
   RedditPost("def456", "post", 5, 3), Tweet("abc123", 5, 2),
   Tweet("abc123", 0, 0)}

Stored(hist, post, before) ==
  [hist EXCEPT ![<<post.source, post.sourceId>>] =
     [times |-> IF @.times < 2 THEN @.times + 1 ELSE 2,
      likes |-> post.likes, comments |-> post.comments, shares |-> post.shares,
      at |-> now, expirationBefore |-> before]]

\* await Content.findOne({ source, sourceId })
UpsertFindOne(p, post) ==
  /\ job[p].at = "idle"
  /\ steps < MaxRequests
  /\ steps' = steps + 1
  /\ LET i == FindOne_Content(content, post.source, post.sourceId)
     IN job' = [job EXCEPT ![p] =
                  [NoJob EXCEPT !.at = IF i = 0 THEN "insert" ELSE "update",
                                !.op = "save", !.post = post, !.contentId = i,
                                !.doc = IF i = 0 THEN <<>> ELSE content[i]]]
  /\ UNCHANGED <<ledger, now, saved, everSaved, result, content, ingested, reports, feed>>

\* await newPost.save(); an error is logged and the loop goes on
UpsertInsert(p) ==
  /\ job[p].at = "insert"
  /\ IF Insertable(content, job[p].post)
     THEN /\ content' = Append(content, job[p].post)
          /\ ingested' = Stored(ingested, job[p].post, NoDate)
          /\ job' = [job EXCEPT ![p] = NoJob]
     ELSE /\ job' = [job EXCEPT ![p] = [NoJob EXCEPT !.logged =
                       IF job[p].post.contentType \in ContentTypeEnum
                       THEN "duplicate key" ELSE "validation failed"]]
          /\ UNCHANGED <<content, ingested>>
  /\ UNCHANGED <<ledger, now, saved, everSaved, result, steps, reports, feed>>

\* await existingPost.updateEngagementMetrics(...): its save() sends the
\* paths it modified
UpsertUpdate(p) ==
  /\ job[p].at = "update"
  /\ LET post == job[p].post
         doc == updateEngagementMetrics(job[p].doc, post.likes, post.comments,
                                        post.shares)
     IN /\ content' = [content EXCEPT ![job[p].contentId] =
                          SetModified(@, job[p].doc, doc)]
        /\ job' = [job EXCEPT ![p].at = "refresh", ![p].doc = doc]
  /\ UNCHANGED <<ledger, now, saved, everSaved, result, steps, ingested, reports, feed>>

\* await existingPost.refreshCache(24)
UpsertRefresh(p) ==
  /\ job[p].at = "refresh"
  /\ LET doc == refreshCache(job[p].doc, CacheHours, now)
     IN /\ content' = [content EXCEPT ![job[p].contentId] =
                          SetModified(@, job[p].doc, doc)]
        /\ ingested' = Stored(ingested, job[p].post, job[p].doc.cacheExpiration)
  /\ job' = [job EXCEPT ![p] = NoJob]
  /\ UNCHANGED <<ledger, now, saved, everSaved, result, steps, reports, feed>>

NextIngestConc ==
  \/ \E p \in Procs, post \in ConcPosts : UpsertFindOne(p, post)
  \/ \E p \in Procs : UpsertInsert(p)
  \/ \E p \in Procs : UpsertUpdate(p)
  \/ \E p \in Procs : UpsertRefresh(p)

SpecIngestConc == Init /\ [][NextIngestConc]_vars

\* Moderation while content is ingested: the upsert of an item may be
\* suspended while a report on it is reviewed.
ModerationPosts == {RedditPost("abc123", "post", 5, 3), Tweet("abc123", 5, 2)}

NextModeration ==
  \/ \E p \in Procs, post \in ModerationPosts : UpsertFindOne(p, post)
  \/ \E p \in Procs : UpsertInsert(p)
  \/ \E p \in Procs : UpsertUpdate(p)
  \/ \E p \in Procs : UpsertRefresh(p)
  \/ \E u \in {"u1"} : Register(u, "none")
  \/ \E c \in ContentIds : ReportContent("u1", c, "spam")
  \/ \E id \in {1}, status \in ReviewStatuses, action \in ReviewActions :
        ReviewReport(id, status, action)
  \/ \E sources \in {NoSources, Given({"twitter"})} :
        GetUserFeed("u1", sources, {}, FALSE, {})
  \/ \E hits \in {ContentIds}, sources \in {NoSources, Given({"reddit"})} :
        SearchContent(hits, sources)

SpecModeration == Init /\ [][NextModeration]_vars

\* ------------------------------------------------------------- the routes
Roles == {"user", "admin"}

\* PUT /admin/users/:id/role, reached by an admin
UpdateUserRole(u, role) ==
  /\ steps < MaxSteps
  /\ IF role \notin Roles
     THEN result' = "Invalid role" /\ UNCHANGED users
     ELSE IF ~users[u].exists
     THEN result' = "User not found" /\ UNCHANGED users
     ELSE users' = [users EXCEPT ![u].role = role] /\ result' = ""
  /\ steps' = steps + 1
  /\ UNCHANGED <<credits, txlog, now, flight>>

\* the authenticate middleware for a valid token of u: "" lets the request
\* through
authenticate(usrs, u) ==
  IF ~usrs[u].exists THEN "Invalid token. User not found."
  ELSE IF usrs[u].accountStatus # "active" THEN "Your account is not active"
  ELSE ""

\* POST /feed/refresh with a valid token of u: the router runs authenticate,
\* then the handler
PostRefresh(u, sources, failed, likes) ==
  /\ steps < MaxSteps
  /\ IF authenticate(users, u) # ""
     THEN /\ result' = authenticate(users, u)
          /\ steps' = steps + 1
          /\ UNCHANGED <<ledger, now, saved, everSaved, content, ingested,
                         reports, job, feed>>
     ELSE Refreshes(sources, failed, likes)

NextRoutes ==
  \/ \E u \in Users : Register(u, "none")
  \/ \E u \in Users, role \in Roles : UpdateUserRole(u, role)
  \/ \E u \in Users : DeleteAccount(u)
  \/ \E u \in Users, sources \in {{"twitter"}, {"reddit"}} :
        PostRefresh(u, sources, {}, 5)

SpecRoutes == Init /\ [][NextRoutes]_vars

\* ======================================================== the claims
RECURSIVE SumAmounts(_)
SumAmounts(log) ==
  IF log = <<>> THEN 0 ELSE log[1].amount + SumAmounts(Tail(log))

\* C1: for every user, after any sequence of successful or failed
\* addCredits, deductCredits and adjustCredits calls run one at a time, the
\* stored CreditBalance has balance = totalEarned - totalSpent.
C1_BalanceIsEarnedMinusSpent ==
  \A u \in Users : credits[u].balance = credits[u].totalEarned - credits[u].totalSpent

\* C1 witness: a balance that was credited and debited, after a call that failed.
C1_Witness ==
  \E u \in Users : /\ credits[u].totalEarned > 0
                    /\ credits[u].totalSpent > 0
                    /\ Len(txlog[u]) >= 2
                    /\ result = "insert failed"

\* C2: replaying the signed amounts of a user's transactions in creation
\* order from zero gives the user's current balance.
C2_ReplayGivesBalance ==
  \A u \in Users : SumAmounts(txlog[u]) = credits[u].balance

\* C3: under any interleaving of concurrent addCredits, deductCredits and
\* adjustCredits requests, every committed state has balance = totalEarned -
\* totalSpent, and once no request is in flight the balance is the sum of the
\* signed amounts of the requests that succeeded (each has its transaction).
C3_ConcurrentUpdatesKeepLedger ==
  \A u \in Users :
    /\ credits[u].balance = credits[u].totalEarned - credits[u].totalSpent
    /\ (\A p \in Procs : pc[p] = "idle")
         => credits[u].balance = SumAmounts(txlog[u])

\* C4: in every reachable state, a deductCredits call whose (integer) amount
\* exceeds the user's balance does not succeed and changes neither the
\* balance record nor the log; with a balance record present the error is
\* "Insufficient credits".
C4_DeductNeverOverdraws ==
  \A u \in Users, a \in DeductAmounts, f \in Faults :
    LET r == Service_deductCredits(St, u, a, "feature_usage", "none", f)
    IN ParseInt(a).val > credits[u].balance
         => /\ r.err # ""
            /\ credits[u].exists => r.err = "Insufficient credits"
            /\ r.credits = credits
            /\ r.txlog = txlog

\* C4 witness: a deduction larger than a positive balance has just been refused.
C4_Witness ==
  \E u \in Users : /\ result = "Insufficient credits"
                    /\ credits[u].balance > 0
                    /\ credits[u].balance < 2

\* C5: a balance change is never left without its transaction: the stored
\* balance is the balance recorded by the user's latest transaction (zero
\* when there is none), also after a failed transaction insert.
C5_BalanceChangeHasTransaction ==
  \A u \in Users :
    credits[u].balance =
      IF txlog[u] = <<>> THEN 0 ELSE txlog[u][Len(txlog[u])].balance

\* ------------------------------------------------- daily login (C6, C7)
DailyLogins(log) == {i \in DOMAIN log : log[i].category = "daily_login"}

\* The user may be rewarded now: there is a balance and no reward in the
\* last 20 hours.
Eligible(st, u) ==
  /\ st.credits[u].exists
  /\ \/ st.credits[u].lastDailyLoginReward = NoDate
     \/ st.now - st.credits[u].lastDailyLoginReward > CooldownHours

\* k reward attempts of u, the first now and each gap hours after the one
\* before, all store writes succeeding.
RECURSIVE LoginsEvery(_, _, _, _)
LoginsEvery(st, u, gap, k) ==
  IF k = 0 THEN st
  ELSE LoginsEvery([handleDailyLoginReward(st, u, "none") EXCEPT !.now = @ + gap],
                   u, gap, k - 1)

\* C6: two reward attempts of one user less than 20 hours apart award once:
\* (a) no two daily_login transactions of a user are less than 20 hours
\* apart, and (b) from every reachable state in which the user may be
\* rewarded, the first attempt appends one daily_login transaction and adds
\* the daily amount, and a second attempt less than 20 hours later, whatever
\* fails in it, changes neither the balance nor the log.
C6_TwoLoginsWithin20hAwardOnce ==
  \A u \in Users :
    /\ \A i, j \in DailyLogins(txlog[u]) :
         i < j => txlog[u][j].createdAt - txlog[u][i].createdAt >= CooldownHours
    /\ Eligible(St, u) =>
         LET first == handleDailyLoginReward(St, u, "none")
         IN /\ Cardinality(DailyLogins(first.txlog[u]))
                 = Cardinality(DailyLogins(txlog[u])) + 1
            /\ first.credits[u].balance
                 = credits[u].balance + DefaultDailyLoginCredits
            /\ \A later \in 0..(CooldownHours - 1), f \in Faults :
                 LET second == handleDailyLoginReward(
                                 [first EXCEPT !.now = @ + later], u, f)
                 IN /\ second.credits = first.credits
                    /\ second.txlog = first.txlog

\* C6 witness: a user logged in again less than 20 hours after a rewarded
\* login and holds one daily_login transaction.
C6_Witness ==
  \E u \in Users :
    /\ Cardinality(DailyLogins(txlog[u])) = 1
    /\ \E i \in DailyLogins(txlog[u]) :
         /\ users[u].lastLogin > txlog[u][i].createdAt
         /\ users[u].lastLogin - txlog[u][i].createdAt < CooldownHours
    /\ credits[u].balance = DefaultDailyLoginCredits

\* C7 as stated: five attempts, each at least 20 hours after the previous
\* one (exactly 20 hours included), give five daily_login transactions.
C7_FiveLoginsFrom20hApart ==
  \A u \in Users, gap \in {CooldownHours, CooldownHours + 1} :
    Eligible(St, u) =>
      Cardinality(DailyLogins(LoginsEvery(St, u, gap, 5).txlog[u]))
        = Cardinality(DailyLogins(txlog[u])) + 5

\* C7 amended: five attempts, each more than 20 hours after the previous one,
\* give five daily_login transactions; an attempt exactly 20 hours after a
\* rewarded one gives nothing.
C7_FiveLoginsMoreThan20hApart ==
  \A u \in Users :
    Eligible(St, u) =>
      /\ \A gap \in {CooldownHours + 1, CooldownHours + 4, 2 * CooldownHours} :
           Cardinality(DailyLogins(LoginsEvery(St, u, gap, 5).txlog[u]))
             = Cardinality(DailyLogins(txlog[u])) + 5
      /\ Cardinality(DailyLogins(LoginsEvery(St, u, CooldownHours, 2).txlog[u]))
           = Cardinality(DailyLogins(txlog[u])) + 1

\* C7 witness: two rewarded logins of one user, 21 hours apart.
C7_Witness ==
  \E u \in Users : \E i, j \in DailyLogins(txlog[u]) :
    /\ txlog[u][j].createdAt - txlog[u][i].createdAt = CooldownHours + 1
    /\ credits[u].balance = 2 * DefaultDailyLoginCredits

\* ------------------------------------------ profile milestones (C8, C9)
MilestoneCredits(t) ==
  CASE t = 25 -> 10 [] t = 50 -> 15 [] t = 75 -> 25 [] t = 100 -> 50

RECURSIVE SumCredits(_)
SumCredits(ts) ==
  IF ts = {} THEN 0
  ELSE LET t == CHOOSE x \in ts : TRUE IN MilestoneCredits(t) + SumCredits(ts \ {t})

\* the transactions a call appended to the log it started from
Appended(before, after) == SubSeq(after, Len(before) + 1, Len(after))

\* C8: in every reachable state, processProfileCompletionRewards(u, old, new)
\* (its store and notification calls succeeding) appends one
\* profile_completion transaction for each milestone t of 25, 50, 75, 100
\* with old < t <= new, worth 10, 15, 25, 50, and nothing else;
\* (20, 60) gives the 25 and 50 milestones, 25 credits; (60, 60) gives nothing.
C8_MilestonesInOldNew ==
  \A u \in Users, old \in Percentages, new \in Percentages :
    LET r == processProfileCompletionRewards(St, u, old, new, NoFault)
        added == Appended(txlog[u], r.txlog[u])
        due == {t \in {25, 50, 75, 100} : old < t /\ t <= new}
    IN /\ Len(added) = Cardinality(due)
       /\ \A t \in due : \E i \in DOMAIN added :
            /\ added[i].category = "profile_completion"
            /\ added[i].type = "earn"
            /\ added[i].amount = MilestoneCredits(t)
       /\ r.credits[u].balance = credits[u].balance + SumCredits(due)
       /\ \A v \in Users \ {u} :
            r.credits[v] = credits[v] /\ r.txlog[v] = txlog[v]
       /\ (old = 20 /\ new = 60) =>
            /\ r.credits[u].balance = credits[u].balance + 25
            /\ Len(added) = 2
       /\ (old = 60 /\ new = 60) => r.credits = credits /\ r.txlog = txlog

\* C8 witness: a (20, 60) call has awarded the 25 and 50 milestones, and a
\* further (60, 60) call nothing.
C8_Witness ==
  \E u \in Users :
    /\ Len(txlog[u]) = 2
    /\ txlog[u][1].meta = "milestone 25" /\ txlog[u][1].amount = 10
    /\ txlog[u][2].meta = "milestone 50" /\ txlog[u][2].amount = 15
    /\ credits[u].balance = 25
    /\ steps = 2

\* C9: over any sequence of updateUserProfile calls, no user holds two
\* profile_completion transactions for the same milestone.
C9_MilestoneAtMostOnce ==
  \A u \in Users : \A i, j \in DOMAIN txlog[u] :
    (/\ txlog[u][i].category = "profile_completion"
     /\ txlog[u][j].category = "profile_completion"
     /\ txlog[u][i].meta = txlog[u][j].meta) => i = j

\* ------------------------------------------------- content upsert (C10)
RowsOf(k) == {i \in DOMAIN content :
                content[i].source = k[1] /\ content[i].sourceId = k[2]}

\* C10: once the same (source, sourceId) has been ingested twice, there is
\* exactly one Content row for it, its likes, comments and shares are those
\* of the latest ingestion, and its cacheExpiration is later than it was
\* before that ingestion (when the clock has advanced since).
C10_SecondIngestOverwrites ==
  \A k \in ContentKeys :
    ingested[k].times >= 2 =>
      /\ Cardinality(RowsOf(k)) = 1
      /\ \A i \in RowsOf(k) :
           /\ content[i].likes = ingested[k].likes
           /\ content[i].comments = ingested[k].comments
           /\ content[i].shares = ingested[k].shares
           /\ (ingested[k].expirationBefore # NoDate
               /\ ingested[k].at + CacheHours > ingested[k].expirationBefore)
                => content[i].cacheExpiration > ingested[k].expirationBefore

\* ------------------------------------------------- reports (C11, C12)
ReportsOf(reps, u, c) ==
  {i \in DOMAIN reps : reps[i].reporter = u /\ reps[i].content = c}

\* C11: in every reachable state where U has a report on C, a further
\* reportContent(U, C), whatever its reason, fails with "You have already
\* reported this content" and leaves the Report collection as it is, while
\* reportContent(V, C) by another reporter V who has not reported C, with a
\* reason of the schema, succeeds and adds V's report.
C11_SecondReportRejected ==
  \A u \in Users, c \in ContentIds :
    ReportsOf(reports, u, c) # {} =>
      /\ \A reason \in ReportReasons :
           LET r == reportContent(content, reports, u, c, reason)
           IN /\ r.err = "You have already reported this content"
              /\ r.reports = reports
      /\ \A v \in Users \ {u} :
           ReportsOf(reports, v, c) = {} =>
             LET r == reportContent(content, reports, v, c, "spam")
             IN /\ r.err = ""
                /\ Len(r.reports) = Len(reports) + 1
                /\ Cardinality(ReportsOf(r.reports, v, c)) = 1

\* C11 witness: a reporter's second report on a content item has just been
\* refused, and another reporter's report on the same item was accepted.
C11_Witness ==
  /\ result = "You have already reported this content"
  /\ Len(reports) = 2
  /\ reports[1].content = reports[2].content
  /\ reports[1].reporter # reports[2].reporter

\* C12: also when reportContent calls of one reporter on one content item
\* interleave, there is at most one Report row per (reporter, content).
C12_OneReportPerReporterAndContent ==
  \A u \in Users, c \in ContentIds : Cardinality(ReportsOf(reports, u, c)) <= 1

\* ------------------------------------------------------- refresh (C17)
HasRow(post) ==
  \E i \in DOMAIN content :
    content[i].source = post.source /\ content[i].sourceId = post.sourceId

Requested(sources) == UNION {TargetsOf(s) : s \in sources}

\* C17: after a refresh in which not every requested target failed, the
\* refresh has not failed and the items of every requested target whose
\* fetch succeeded are in the Content store.
C17_PartialFailureKeepsTheRest ==
  (feed.op = "refresh" /\ ~(Requested(feed.sources) \subseteq feed.failed)) =>
     /\ result = ""
     /\ \A t \in Requested(feed.sources) \ feed.failed :
          \A i \in DOMAIN Items(t, feed.likes) : HasRow(Items(t, feed.likes)[i])

\* ---------------------------------------------------------- feed (C13)
\* C13: what getUserFeed returned holds no item flagged isInappropriate and,
\* when it was called with sources = ["twitter"], only items of source
\* twitter; and in every reachable state the same is true of what
\* getUserFeed would return for any user, sources option and preferences.
C13_FeedIsCleanAndFiltered ==
  /\ feed.op = "feed" =>
       \A item \in feed.items :
         /\ ~item.isInappropriate
         /\ (feed.given /\ feed.sources = {"twitter"}) => item.source = "twitter"
  /\ \A u \in Users, sources \in SourcesOptions, enabled \in SUBSET Sources :
       \A item \in getUserFeed(users, content, saved, u, sources, enabled).items :
         /\ ~item.isInappropriate
         /\ sources = Given({"twitter"}) => item.source = "twitter"

\* C13 witness: a feed for sources = ["twitter"] returned items while the
\* store held a flagged twitter item and an unflagged reddit item.
C13_Witness ==
  /\ feed.op = "feed" /\ feed.given /\ feed.sources = {"twitter"}
  /\ feed.items # {}
  /\ \E i \in DOMAIN content :
       content[i].source = "twitter" /\ content[i].isInappropriate
  /\ \E i \in DOMAIN content :
       content[i].source = "reddit" /\ ~content[i].isInappropriate

\* ------------------------------------- interaction rewards (C14, C15)
InteractionCredits(t) ==
  CASE t = "save" -> 2 [] t = "share" -> 5 [] t = "comment" -> 3 [] OTHER -> 1

\* C14: every awardContentInteractionCredits call whose store and
\* notification calls succeed credits 2 for save, 5 for share, 3 for comment
\* and 1 for any other interaction type, and appends one earn transaction of
\* category content_interaction with that amount and the new balance.
C14_InteractionCredits ==
  [][\A u \in Users, t \in InteractionTypes :
       AwardContentInteractionCredits(u, t, "none") =>
         /\ credits'[u].balance = credits[u].balance + InteractionCredits(t)
         /\ Len(txlog'[u]) = Len(txlog[u]) + 1
         /\ LET tx == txlog'[u][Len(txlog'[u])]
            IN /\ tx.type = "earn" /\ tx.category = "content_interaction"
               /\ tx.amount = InteractionCredits(t)
               /\ tx.balance = credits'[u].balance]_vars

\* C15: in every reachable state, adjustCredits with a non-zero amount (its
\* store and notification calls succeeding) adds the signed amount to the
\* balance whatever the balance is, adds a positive amount to totalEarned or
\* the absolute value of a negative one to totalSpent, and appends one
\* adjustment transaction of category admin_adjustment; from balance 2 an
\* adjustment of -100 gives balance -98.
C15_AdjustHasNoFloor ==
  \A u \in Users, a \in AdminAmounts \ {Num(0)} :
    LET n == ParseInt(a).val
        before == IF credits[u].exists THEN credits[u] ELSE NewBalance
        r == Service_adjustCredits(St, u, a, "none")
        added == Appended(txlog[u], r.txlog[u])
    IN /\ r.err = ""
       /\ r.credits[u].balance = before.balance + n
       /\ r.credits[u].totalEarned = before.totalEarned + (IF n > 0 THEN n ELSE 0)
       /\ r.credits[u].totalSpent = before.totalSpent + (IF n < 0 THEN -n ELSE 0)
       /\ Len(added) = 1
       /\ added[1].category = "admin_adjustment" /\ added[1].type = "adjustment"
       /\ added[1].amount = n /\ added[1].balance = r.credits[u].balance
       /\ (before.balance = 2 /\ n = -100) => r.credits[u].balance = -98

\* C15 witness: a balance of 2 (one save reward) was adjusted by -100.
C15_Witness ==
  \E u \in Users :
    /\ Len(txlog[u]) = 2
    /\ txlog[u][1].amount = 2 /\ txlog[u][1].category = "content_interaction"
    /\ txlog[u][2].amount = -100 /\ txlog[u][2].category = "admin_adjustment"
    /\ credits[u].balance = -98 /\ credits[u].totalSpent = 100
    /\ credits[u].totalEarned = 2

\* ------------------------------------------- notification failure (C16)
\* C16: a credit operation whose balance update and transaction were
\* committed and whose notification then failed returns success.
C16_NotifyFailureDoesNotPropagate ==
  [][\A u \in Users :
       (/\ \/ \E a \in AddAmounts : AddCredits(u, a, "notify")
           \/ \E a \in DeductAmounts : DeductCredits(u, a, "notify")
           \/ \E a \in AdjustAmounts : AdjustCredits(u, a, "notify")
        /\ Len(txlog'[u]) = Len(txlog[u]) + 1)
         => result' = ""]_vars

\* ------------------------------------------------- invalid amounts (C18)
IsPositiveInteger(a) == ~a.nan /\ a.tenths > 0 /\ a.tenths % 10 = 0

\* C18: addCredits and deductCredits with an amount that is not a positive
\* integer, and adjustCredits with amount 0, fail with an invalid-amount
\* error and leave CreditBalance and the transactions as they are (no store
\* or notification call failing by itself).
C18_InvalidAmountRejected ==
  [][\A u \in Users :
       (\/ \E a \in AddAmounts : ~IsPositiveInteger(a) /\ AddCredits(u, a, "none")
        \/ \E a \in DeductAmounts :
              ~IsPositiveInteger(a) /\ DeductCredits(u, a, "none")
        \/ AdjustCredits(u, Num(0), "none"))
         => /\ result' \in {"Invalid credit amount", "Invalid adjustment amount"}
            /\ UNCHANGED <<credits, txlog>>]_vars

\* ------------------------------------------------ monotonic totals (C19)
\* C19: from one committed state to the next, also when requests
\* interleave, no user's totalEarned or totalSpent decreases.
C19_TotalsNeverDecrease ==
  [][\A u \in Users :
       /\ credits'[u].totalEarned >= credits[u].totalEarned
       /\ credits'[u].totalSpent >= credits[u].totalSpent]_vars

SavedRowsOf(svd, userId, contentId) ==
  {i \in DOMAIN svd : svd[i].user = userId /\ svd[i].content = contentId}

\* C21: after any sequence of saveContent and unsaveContent calls there is
\* at most one SavedContent row per (user, content), and saveContent on an
\* item the user has already saved inserts no row: it sets folder, tags and
\* notes of the existing row to the ones given and leaves every other row as
\* it was.
C21_OneRowAndResaveUpdates ==
  \A u \in Users, c \in ContentIds :
    /\ Cardinality(SavedRowsOf(saved, u, c)) <= 1
    /\ SavedRowsOf(saved, u, c) # {} =>
         \A o \in SaveOptions :
           LET r == saveContent(St, content, saved, u, c, o, "none")
               i == FindOne_Saved(saved, u, c)
           IN /\ r.st.err = ""
              /\ Len(r.saved) = Len(saved)
              /\ r.saved[i] = NewSaved(u, c, o)
              /\ \A j \in DOMAIN saved : j # i => r.saved[j] = saved[j]

\* a saved item was saved again with other options, and the row was updated
C21_Witness ==
  /\ result = "Content updated in saved items"
  /\ \E i \in DOMAIN saved : saved[i].folder = "Work"
  /\ \E u \in Users : everSaved[u] = 1 /\ Len(saved) = 1


\* C22: every item getUserFeed returns for a user carries isSaved = TRUE if
\* and only if a SavedContent row for that user and that item exists at the
\* time of the call, for any sources option and any preferences.
C22_IsSavedIffRowExists ==
  \A u \in Users, sources \in SourcesOptions, enabled \in EnabledChoices :
    \A item \in getUserFeed(users, content, saved, u, sources, enabled).items :
      item.isSaved <=> SavedRowsOf(saved, u, item.id) # {}


\* C23: a credit operation for a userId that refers to no existing user
\* creates no CreditBalance record and no transaction, and so every
\* CreditBalance row refers to an existing user.
C23_NoBalanceWithoutUser ==
  [][\A u \in Users :
       /\ (~users[u].exists /\ ~users'[u].exists) =>
            (credits'[u] = credits[u] /\ txlog'[u] = txlog[u])
       /\ credits'[u].exists => users'[u].exists]_vars


\* the email verification rewards in the transaction log of a user
VerificationRewards(u) ==
  {i \in DOMAIN txlog[u] : /\ txlog[u][i].category = "profile_completion"
                           /\ txlog[u][i].meta = "email_verified"}

\* C24: over any sequence of register, updateEmail and verifyEmail
\* operations, the email verification reward (20 credits, category
\* profile_completion) is granted at most once per user.
C24_VerificationRewardAtMostOnce ==
  \A u \in Users : Cardinality(VerificationRewards(u)) <= 1


\* C25: the first daily-login reward attempt of a valid active user who has
\* never received a daily reward (its store and notification calls
\* succeeding) credits the daily amount, default 10, under category
\* daily_login and sets the last-reward timestamp to now, whether or not a
\* CreditBalance record exists for the user before the attempt.
C25_FirstLoginIsRewarded ==
  [][\A u \in Users :
       ( /\ Login(u, "none")
         /\ users[u].exists /\ users[u].accountStatus = "active"
         /\ DailyLogins(txlog[u]) = {}
         /\ credits[u].lastDailyLoginReward = NoDate ) =>
         /\ credits'[u].exists
         /\ credits'[u].balance = credits[u].balance + DefaultDailyLoginCredits
         /\ credits'[u].lastDailyLoginReward = now
         /\ Len(txlog'[u]) = Len(txlog[u]) + 1
         /\ LET tx == txlog'[u][Len(txlog'[u])]
            IN /\ tx.category = "daily_login"
               /\ tx.amount = DefaultDailyLoginCredits]_vars


\* the ids of the documents a query returned
IdsOf(items) == {item.id : item \in items}

\* C26: once a report review with status accepted and action removed has
\* flagged a Content item as inappropriate, no step clears the flag or
\* deletes the row, and the item is in the result of no getUserFeed and no
\* searchContent call, whatever the user, the sources, the preferences and
\* the query.
C26_FlaggedStaysExcluded ==
  /\ [](\A i \in DOMAIN content : content[i].isInappropriate =>
          /\ \A u \in Users, sources \in SourcesOptions, enabled \in EnabledChoices :
               i \notin IdsOf(getUserFeed(users, content, saved, u, sources, enabled).items)
          /\ \A hits \in SUBSET ContentIds, sources \in SourcesOptions :
               i \notin IdsOf(searchContent(content, hits, sources).items))
  /\ [][\A i \in DOMAIN content : content[i].isInappropriate =>
          /\ i \in DOMAIN content'
          /\ content'[i].isInappropriate
          /\ content'[i].source = content[i].source
          /\ content'[i].sourceId = content[i].sourceId]_vars

\* the first item was flagged by an accepted report with action removed; a
\* later search whose query matches both stored items returned the other one
C26_Witness ==
  /\ Len(content) = 2 /\ content[1].isInappropriate /\ ~content[2].isInappropriate
  /\ reports[1].status = "accepted" /\ reports[1].actionTaken = "removed"
  /\ feed.op = "search" /\ feed.hits = ContentIds
  /\ IdsOf(feed.items) = {2}


\* C27: POST /api/feed/refresh runs refreshFeedContent only for a request
\* authenticated as a user with role admin: a request of an authenticated
\* user with another role is rejected and ingests nothing.
C27_RefreshIsAdminOnly ==
  [][\A u \in Users, sources \in {{"twitter"}, {"reddit"}} :
       ( /\ PostRefresh(u, sources, {}, 5)
         /\ authenticate(users, u) = ""
         /\ users[u].role # "admin" ) =>
         /\ result' # ""
         /\ content' = content
         /\ ingested' = ingested]_vars


\* the save-interaction credit transactions of a user
SaveAwards(u) ==
  {i \in DOMAIN txlog[u] : /\ txlog[u][i].category = "content_interaction"
                           /\ txlog[u][i].meta = "save"}

\* C28: in every reachable state the number of save-interaction credit
\* transactions of a user equals the number of SavedContent rows ever
\* created for that user: a re-save awards nothing and no created row is
\* left without its award.
C28_OneAwardPerCreatedRow ==
  \A u \in Users : Cardinality(SaveAwards(u)) = everSaved[u]


\* what the transactions of a log spent, and what they made available
RECURSIVE SpentIn(_)
SpentIn(log) ==
  IF log = <<>> THEN 0
  ELSE (IF Head(log).type = "spend" THEN -Head(log).amount ELSE 0) + SpentIn(Tail(log))

RECURSIVE CreditedIn(_)
CreditedIn(log) ==
  IF log = <<>> THEN 0
  ELSE (IF Head(log).type # "spend" /\ Head(log).amount > 0
        THEN Head(log).amount ELSE 0) + CreditedIn(Tail(log))

\* C29: under any interleaving of the requests of one user, once every
\* request has completed, the sum of the amounts of all successful spend
\* transactions does not exceed the credits that were made available to the
\* user, so two concurrent deductCredits whose amounts together exceed the
\* balance do not both succeed.
C29_NeverSpendsMoreThanAvailable ==
  (\A p \in Procs : pc[p] = "idle") =>
    \A u \in Users : SpentIn(txlog[u]) <= CreditedIn(txlog[u])


\* C30: under any interleaving of the logins of one user, no two daily_login
\* transactions of the user lie within 20 hours of each other, so two
\* concurrent logins of an eligible user produce at most one of them.
C30_ConcurrentLoginsAwardOnce ==
  \A u \in Users :
    \A i, j \in DailyLogins(txlog[u]) :
      i < j => txlog[u][j].createdAt - txlog[u][i].createdAt >= CooldownHours

====
